---------------------------- MODULE Spec2Model ----------------------------
(***************************************************************************)
(* A model of easyvolcap's ImageBasedDataset                               *)
(* (src/easyvolcap/dataloaders/datasets/image_based_dataset.py): the       *)
(* construction of the source-view ranking, the training-time selection of *)
(* get_metadata, the viewer selection of get_viewer_batch and the          *)
(* object-prior box of get_objects_prior.                                  *)
(*                                                                         *)
(* Conventions.  Python indices are 0-based and are kept as they are: a    *)
(* tensor is a function over 0..n-1, a Python list or 1-D index tensor is  *)
(* a TLA+ sequence whose element k+1 is the list's element k.  Cameras     *)
(* live on a line with integer coordinates, so the norm of a difference of *)
(* centres is an absolute value.  A 4x4 extrinsic or intrinsic matrix is   *)
(* represented by the camera (view, frame) it belongs to, and an extrinsic *)
(* also by that camera's centre, which is all the code reads out of it.    *)
(***************************************************************************)
EXTENDS Integers, Sequences, FiniteSets, TLC

\* ------------------------------------------------------------- bounds
NumViews == 3       \* len(self.view_inds): cameras of the rig
NumFrames == 2      \* len(self.frame_inds): frames of the sequence
MaxCoord == 2       \* camera centres of frame 0 lie on 0..MaxCoord
MaxExtra == 1       \* extra_src_pool ranges over 0..MaxExtra
ProbDen == 3        \* random.random() and append_gt_prob are multiples of 1/ProbDen
MaxBlocks == 2      \* projected boxes reach up to (MaxBlocks+1)*Align - 1 pixels

\* --------------------------------------------------- program constants
Align == 32         \* boxes are aligned to multiples of 32

Views == 0 .. (NumViews - 1)
Frames == 0 .. (NumFrames - 1)
None == 0 - 1       \* Python's None in a slice [begin, end, step]

Abs(x) == IF x < 0 THEN 0 - x ELSE x
Min(a, b) == IF a <= b THEN a ELSE b
Max(a, b) == IF a >= b THEN a ELSE b
Range(s) == {s[i] : i \in DOMAIN s}
MaxOf(s) == CHOOSE m \in Range(s) : \A x \in Range(s) : x <= m
IsInjective(s) == \A i, j \in DOMAIN s : s[i] = s[j] => i = j

\* The sequence s itself, with its elements evaluated once.
Evaluated(s) == SubSeq(s, 1, Len(s))

\* Python's s[k] for a list held as a sequence.
At(s, k) == s[k + 1]

\* Python's s[lo:hi] (0 <= lo, 0 <= hi): the slice is cut to the list's
\* length without an error.
PySlice(s, lo, hi) == SubSeq(s, lo + 1, Min(hi, Len(s)))

\* Python's arange(n)[begin:end:step] for begin >= 0, step >= 1 and end
\* either None or >= 0.
PyStridedRange(n, begin, end, step) ==
    LET stop == IF end = None THEN n ELSE Min(end, n)
        cnt == IF stop > begin THEN (stop - begin + step - 1) \div step ELSE 0
    IN [i \in 1 .. cnt |-> begin + (i - 1) * step]

\* ------------------------------------------------------- similarities
\* The largest distance between two centres of the model.
MaxDist == MaxCoord + NumFrames
\* 1 / d in fixed point: SimScale is large enough for d |-> SimScale \div d
\* to be strictly decreasing on 1..MaxDist+1, as 1/d is in floating point.
SimScale == (MaxDist + 1) * (MaxDist + 2)
\* IEEE 1 / 0.0 = +inf: above every finite similarity.
Inf == 2 * SimScale + 1
\* 1 / 1e-10: the similarity of a distance clipped to 1e-10, above the
\* similarity of every non-zero distance of the integer grid.
InvEps == 2 * SimScale

\* Faulty variant, for sensitivity checks: a guard against the division by zero that returns 0.
InverseDistanceGuarded(d) == IF d = 0 THEN 0 ELSE SimScale \div d
\* sims = 1 / norm (line 118): no clip, a zero distance divides to +inf.
InverseDistance(d) == IF d = 0 THEN Inf ELSE SimScale \div d
\* sims = 1 / norm.clip(1e-10) (line 275).
InverseClippedDistance(d) == IF d = 0 THEN InvEps ELSE SimScale \div d


\* ------------------------------------------------------ the dataset
VARIABLES
    c2ws,             \* camera store: c2ws[v][f] is the centre of view v at frame f
    tie_order,        \* the build's order of equal keys in torch.sort (unstable)
    closest_using_t,  \* select along the frame axis instead of the view axis
    src_view_sample,  \* [begin, end, step], or a list of indices
    n_srcs_list,      \* the source counts a query may ask for
    extra_src_pool,   \* how much wider than n_srcs the sampled pool is
    append_gt_prob,   \* numerator over ProbDen
    use_object_prior, \* whether queries run get_objects_prior
    src_view_inds,    \* candidate position -> physical index on the candidate axis
    src_exts,         \* src_exts[c][s]: extrinsics of candidate c at secondary s
    src_ixts,         \* src_ixts[c][s]: intrinsics of candidate c at secondary s
    src_sims,         \* src_sims[t][s]: similarities of target t, best first
    src_inds,         \* src_inds[t][s]: candidate positions of target t, best first
    bounds,           \* self.bounds: the global bound box <<lower, upper>>
    latent_bounds,    \* the per-latent bound boxes get_bounds reads
    split,            \* the data split the dataset serves
    supply_decoded,   \* decode the images even outside training
    kinds,            \* what the image loader has besides rgb: masks, weights, background
    output            \* the output object of the query in progress

\* What the dataset caches at construction, and all of its state.
cached == <<c2ws, tie_order, closest_using_t, src_view_sample, n_srcs_list,
            extra_src_pool, append_gt_prob, use_object_prior, src_view_inds,
            src_exts, src_ixts, src_sims, src_inds, bounds,
            split, supply_decoded, kinds>>
dataset == <<cached, latent_bounds>>
vars == <<dataset, output>>

\* The axes of the ranking: targets and candidates are enumerated along one
\* axis, the secondary index along the other (lines 89, 112, 182-187).
TargetAxis(cut) == IF cut THEN Frames ELSE Views
SecondaryAxis(cut) == IF cut THEN Views ELSE Frames

\* The camera (view, frame) behind index i of the candidate axis and
\* secondary index s.
Camera(cut, i, s) == IF cut THEN <<s, i>> ELSE <<i, s>>

\* w2cs[v][f] padded to 4x4, and Ks[v][f].
Ext(store, cam) == [cam |-> cam, center |-> store[cam[1]][cam[2]]]
Ixt(cam) == [cam |-> cam]

\* load_source_params, the view selection: arange over the candidate axis,
\* cut by src_view_sample (a list of three is a slice, any other a list of
\* indices).
SelectViewInds(cut, sample) ==
    LET n == IF cut THEN NumFrames ELSE NumViews
    IN IF Len(sample) # 3 THEN sample
       ELSE PyStridedRange(n, sample[1], sample[2], sample[3])

\* Line 94: a selection of one element is wrapped in a list before it
\* indexes the camera store.
ParamIndex(view_inds) ==
    IF Len(view_inds) = 1 THEN [kind |-> "list", items |-> <<view_inds>>]
    ELSE [kind |-> "tensor", items |-> view_inds]

\* How the store reads that index (lines 103-109).  Alone, a list that holds
\* a tensor is read as the tuple of its elements: self.Ks[[t]] is self.Ks[t].
\* After a slice, in self.Ks[:, [t]], the list is made a tensor, the
\* one-element tensor in it giving its element.
StoreIndex(cut, index) ==
    IF index.kind = "tensor" THEN index.items
    ELSE IF cut THEN [i \in 1 .. Len(index.items) |-> index.items[i][1]]
    ELSE index.items[1]

\* load_source_params, the parameters of the selected candidates; with
\* closest_using_t the store is indexed on its frame axis and transposed.
SourceExts(cut, view_inds, store) ==
    [c \in 0 .. (Len(view_inds) - 1) |->
        [s \in SecondaryAxis(cut) |-> Ext(store, Camera(cut, At(view_inds, c), s))]]
SourceIxts(cut, view_inds) ==
    [c \in 0 .. (Len(view_inds) - 1) |->
        [s \in SecondaryAxis(cut) |-> Ixt(Camera(cut, At(view_inds, c), s))]]

\* torch.sort(descending=True) of a 1-D tensor held as a sequence: the
\* indices, largest key first.  Equal keys come in the build's order.
RECURSIVE SortRemaining(_, _, _)
SortRemaining(keys, rem, ties) ==
    IF rem = {} THEN <<>>
    ELSE LET top == CHOOSE k \in {At(keys, i) : i \in rem} :
                        \A i \in rem : At(keys, i) <= k
             tied == {i \in rem : At(keys, i) = top}
             pick == IF ties = "ascending"
                     THEN CHOOSE i \in tied : \A j \in tied : i <= j
                     ELSE CHOOSE i \in tied : \A j \in tied : i >= j
         IN <<pick>> \o SortRemaining(keys, rem \ {pick}, ties)
\* Faulty variant, for sensitivity checks: descending=True left out, the smallest key first.
RECURSIVE SortRemainingUp(_, _, _)
SortRemainingUp(keys, rem, ties) ==
    IF rem = {} THEN <<>>
    ELSE LET low == CHOOSE k \in {At(keys, i) : i \in rem} :
                        \A i \in rem : At(keys, i) >= k
             tied == {i \in rem : At(keys, i) = low}
             pick == IF ties = "ascending"
                     THEN CHOOSE i \in tied : \A j \in tied : i <= j
                     ELSE CHOOSE i \in tied : \A j \in tied : i >= j
         IN <<pick>> \o SortRemainingUp(keys, rem \ {pick}, ties)
SortAscending(keys, ties) == SortRemainingUp(keys, 0 .. (Len(keys) - 1), ties)
SortDescending(keys, ties) == SortRemaining(keys, 0 .. (Len(keys) - 1), ties)

\* load_source_indices: sims[t][c][s] = 1 / |centre of candidate c at s -
\* centre of target t at s|, every target of the axis against the selected
\* candidates.
Sims(cut, exts, store, t, s) ==
    Evaluated([k \in 1 .. Cardinality(DOMAIN exts) |->
        InverseDistance(Abs(exts[k - 1][s].center
                            - Ext(store, Camera(cut, t, s)).center))])
SourceInds(cut, exts, store, ties) ==
    [t \in TargetAxis(cut) |-> [s \in SecondaryAxis(cut) |->
        SortDescending(Sims(cut, exts, store, t, s), ties)]]
SourceSims(cut, exts, store, ties) ==
    [t \in TargetAxis(cut) |-> [s \in SecondaryAxis(cut) |->
        LET sims == Sims(cut, exts, store, t, s)
            inds == SortDescending(sims, ties)
        IN [i \in 1 .. Len(inds) |-> At(sims, inds[i])]]]

\* self.n_srcs_list (line 73): the list [0] stands for "all views".
NormalizeSrcsList(list) ==
    IF Len(list) # 1 \/ list[1] # 0 THEN list ELSE <<NumViews>>

\* ------------------------------------------------------- the inputs
\* Camera layouts: the rig's centres at frame 0, and how the rig moves: it
\* drifts along the line as a whole, or its cameras trade places.
Motions == {"drift", "carousel"}
Layout(pos, motion) ==
    [v \in Views |-> [f \in Frames |->
        CASE motion = "drift" -> pos[v] + f
          [] motion = "carousel" -> pos[(v + f) % NumViews]]]
Layouts == {Layout(pos, m) : pos \in [Views -> 0 .. MaxCoord], m \in Motions}
LineLayout == Layout([v \in Views |-> v % (MaxCoord + 1)], "carousel")

\* What get_bound_2d_bound projects the 3-D bound to in a query: the image
\* size and the 2-D box [H, W, <<x, y, w, h>>].
Projections ==
    {[H |-> 480, W |-> 640, box |-> <<100, 100, 50, 40>>],
     [H |-> 24, W |-> 40, box |-> <<4, 2, 20, 20>>],
     [H |-> 64, W |-> 64, box |-> <<10, 10, 0, 5>>]}
NoProjection == [H |-> 0, W |-> 0, box |-> <<>>]

\* The bound box a viewer batch comes in with.
ViewerBounds == {<<0, MaxDist>>, <<1, MaxCoord>>}

SampleChoices == {<<0, None, 1>>, <<0, None, 2>>, <<1>>, <<1, 0>>}
SrcsListChoices == {<<1, 2>>, <<2, 1>>, <<0>>, <<NumViews - 1>>}

NoOutput == [op |-> "none"]

\* __init__ (lines 56-85) on the constructor arguments and the camera store.
Constructed(store, ties, cut, sample, list, extra, prob, prior) ==
    LET view_inds == SelectViewInds(cut, sample)
        index == StoreIndex(cut, ParamIndex(view_inds))
        exts == SourceExts(cut, index, store)
    IN /\ c2ws = store
       /\ tie_order = ties
       /\ closest_using_t = cut
       /\ src_view_sample = sample
       /\ src_view_inds = view_inds
       /\ src_exts = exts
       /\ src_ixts = SourceIxts(cut, index)
       /\ src_inds = SourceInds(cut, exts, store, ties)
       /\ src_sims = SourceSims(cut, exts, store, ties)
       /\ n_srcs_list = NormalizeSrcsList(list)
       /\ extra_src_pool = extra
       /\ append_gt_prob = prob
       /\ use_object_prior = prior
       /\ bounds = <<0, MaxDist>>
       /\ latent_bounds = [f \in Frames |-> <<0, MaxCoord + f>>]

\* The split, the decoding switch and the payload kinds the image loader has
\* for this dataset (the loader returns None for a kind it has not).
Splits == {"TRAIN", "VAL"}
Kinds == {"msk", "wet", "bg"}
Loader(sp, decoded, ks) ==
    /\ split = sp
    /\ supply_decoded = decoded
    /\ kinds = ks

\* Every layout and tie order under one sampling policy (one or two sources,
\* an extra pool of one, append_gt_prob = 1 / ProbDen), and every sampling
\* policy under one layout.
Init ==
    \/ \E store \in Layouts, ties \in {"ascending", "descending"},
          cut \in BOOLEAN, sample \in SampleChoices :
          /\ Constructed(store, ties, cut, sample, <<1, 2>>, 1, 1, FALSE)
          /\ Loader("TRAIN", FALSE, Kinds)
          /\ output = NoOutput
    \/ \E cut \in BOOLEAN, sample \in SampleChoices, list \in SrcsListChoices,
          extra \in 0 .. MaxExtra, prob \in 0 .. ProbDen, prior \in BOOLEAN :
          /\ Constructed(LineLayout, "ascending", cut, sample, list, extra, prob, prior)
          /\ Loader("TRAIN", FALSE, Kinds)
          /\ output = NoOutput

Unset == [ref |-> [kind |-> "unset", key |-> 0], val |-> <<>>]

\* ------------------------------------------------- get_objects_prior
CeilTo(a, m) == ((a + m - 1) \div m) * m
FloorTo(a, m) == (a \div m) * m
\* np.clip(a, a_min, a_max) = minimum(a_max, maximum(a, a_min)).
Clip(a, lo, hi) == Min(hi, Max(a, lo))

\* Faulty variant, for sensitivity checks: always rounds up, without the fall-back to floor of line 141.
AlignedBoxCeilOnly(H, W, box) ==
    LET w == CeilTo(box[3], Align)
        h == CeilTo(box[4], Align)
    IN <<Clip(box[1] - ((w - box[3]) \div 2), 0, W - w),
         Clip(box[2] - ((h - box[4]) \div 2), 0, H - h), w, h>>
\* Lines 136-143: the box <<x, y, w, h>> aligned to multiples of 32,
\* re-centred and clipped into the H x W image.
AlignedBox(H, W, box) ==
    LET x == box[1]
        y == box[2]
        w_orig == box[3]
        h_orig == box[4]
        up == <<CeilTo(w_orig, Align), CeilTo(h_orig, Align)>>
        wh == IF up[1] > W \/ up[2] > H
              THEN <<FloorTo(w_orig, Align), FloorTo(h_orig, Align)>>
              ELSE up
        w == wh[1]
        h == wh[2]
    IN <<Clip(x - ((w - w_orig) \div 2), 0, W - w),
         Clip(y - ((h - h_orig) \div 2), 0, H - h), w, h>>

\* get_objects_prior (lines 130-167): no outcome of it is an error; it
\* writes objects_xywh and replaces output.bounds by self.bounds itself.
get_objects_prior(out, proj) ==
    [out EXCEPT !.objects_xywh = AlignedBox(proj.H, proj.W, proj.box),
                !.projection = proj,
                !.bounds = [ref |-> [kind |-> "self.bounds", key |-> 0],
                            val |-> bounds]]

\* ------------------------------------------------------ get_metadata
\* Line 190: random.random() = r / ProbDen against append_gt_prob.
RemoveGt(r, prob) == IF r > prob THEN 1 ELSE 0

\* Faulty variant, for sensitivity checks: the slice does not skip the top entry.
SourcePoolFromTop(t, s, remove_gt, n_srcs) ==
    PySlice(src_inds[t][s], 0, n_srcs + extra_src_pool)
\* Line 192: the slice of the target's ranking the sources are drawn from.
SourcePool(t, s, remove_gt, n_srcs) ==
    PySlice(src_inds[t][s], remove_gt, remove_gt + n_srcs + extra_src_pool)

\* random.sample(population, k): every ordering of every k-subset; no
\* outcome (a ValueError) when k exceeds the population.
RandomSample(population, k) ==
    IF k > Len(population) THEN {}
    ELSE {[i \in 1 .. k |-> population[f[i]]] :
             f \in {g \in [1 .. k -> 1 .. Len(population)] : IsInjective(g)}}

\* Line 193: the candidate positions a query may come back with.
SelectSources(pool, n_srcs) ==
    IF extra_src_pool # 0 THEN RandomSample(pool, n_srcs) ELSE {pool}

\* Faulty variant, for sensitivity checks: candidate positions are taken for physical indices.
GatherMissing(view_inds, inds) == inds
\* self.src_view_inds.gather(-1, src_inds) (lines 203, 288).
Gather(view_inds, inds) == [i \in 1 .. Len(inds) |-> At(view_inds, inds[i])]

\* get_sources (lines 223-236) hands the loader one (view, latent) pair per
\* source, in order; the list runs along the candidate axis (lines 207-213).
LoaderPairs(cut, source_index, extra_index) ==
    [i \in 1 .. Len(source_index) |-> Camera(cut, source_index[i], extra_index)]

\* The keys of output and output.meta that get_sources writes, none yet.
NoKeys == [key \in {} |-> <<>>]
\* output.key = value: a key written twice keeps the later value.
Assign(keys, key, value) ==
    [k \in DOMAIN keys \cup {key} |-> IF k = key THEN value ELSE keys[k]]
\* What the loader returns of one kind for the pairs, as decoded tensors or
\* as encoded bytes.
Payload(kind, form, pairs) == [kind |-> kind, form |-> form, cams |-> pairs]
\* i.permute(2, 0, 1) of every tensor (lines 226-229).
Permuted(payload) == [payload EXCEPT !.form = "chw"]

\* get_sources (lines 223-236) on the pairs in out.loaded: decoded tensors
\* under output's keys, or bytes under output.meta's keys.
get_sources(out) ==
    LET pairs == out.loaded
        has(kind) == kind \in kinds
        put(keys, cond, key, value) == IF cond THEN Assign(keys, key, value) ELSE keys
    IN IF split = "TRAIN" \/ supply_decoded
       THEN LET rgb == Assign(out.stored, "src_inps", Permuted(Payload("rgb", "hwc", pairs)))
                msk == put(rgb, has("msk"), "src_msks", Permuted(Payload("msk", "hwc", pairs)))
                wet == put(msk, has("wet"), "src_wets", Permuted(Payload("wet", "hwc", pairs)))
                bg == put(wet, has("bg"), "bg_src_inps", Permuted(Payload("bg", "hwc", pairs)))
            IN [out EXCEPT !.stored = bg]
       ELSE LET rgb == Assign(out.stored, "meta.src_inps", Payload("rgb", "bytes", pairs))
                msk == put(rgb, has("msk"), "meta.src_msks", Payload("msk", "bytes", pairs))
                wet == put(msk, has("wet"), "meta.src_msks", Payload("wet", "bytes", pairs))
                bg == put(wet, has("bg"), "meta.bg_src_inps", Payload("bg", "bytes", pairs))
            IN [out EXCEPT !.stored = bg]

\* The part of a query's output both selectors write (lines 195-215 and
\* 282-301): parameters of the picked candidates, their physical indices,
\* and the pairs loaded.  zip(*[]) of no source at all cannot be unpacked.
WithSources(out, picked, extra_index) ==
    LET physical == Gather(src_view_inds, picked)
        filled == [out EXCEPT
            !.picked = picked,
            !.t_inds = extra_index,
            !.src_exts = [i \in 1 .. Len(picked) |-> src_exts[picked[i]][extra_index]],
            !.src_ixts = [i \in 1 .. Len(picked) |-> src_ixts[picked[i]][extra_index]],
            !.src_inds = physical]
    IN IF Len(picked) = 0
       THEN [filled EXCEPT !.status = "ValueError", !.raised_in = "get_sources"]
       ELSE get_sources([filled EXCEPT
                !.loaded = LoaderPairs(closest_using_t, physical, extra_index)])

NewOutput(op, view_index, latent_index) ==
    [op |-> op, status |-> "ok", raised_in |-> "",
     view_index |-> view_index, latent_index |-> latent_index,
     target_index |-> IF closest_using_t THEN latent_index ELSE view_index,
     extra_index |-> IF closest_using_t THEN view_index ELSE latent_index,
     n_srcs |-> 0, remove_gt |-> 0, pool |-> <<>>,
     picked |-> <<>>, t_inds |-> None, src_exts |-> <<>>, src_ixts |-> <<>>,
     src_inds |-> <<>>, loaded |-> <<>>, stored |-> NoKeys, objects_xywh |-> <<>>,
     projection |-> NoProjection, center |-> None, bounds |-> Unset]

MaybePrior(out, proj) ==
    IF use_object_prior /\ out.status = "ok"
    THEN get_objects_prior(out, proj) ELSE out

ProjectionsOf(out) ==
    IF use_object_prior /\ out.status = "ok" THEN Projections ELSE {NoProjection}

\* get_metadata (lines 169-221) for the target (view_index, latent_index).
get_metadata ==
    /\ output = NoOutput
    /\ \E view_index \in Views, latent_index \in Frames, n \in Range(n_srcs_list),
          remove_gt \in {RemoveGt(r, append_gt_prob) : r \in 0 .. (ProbDen - 1)} :
        LET start == NewOutput("get_metadata", view_index, latent_index)
            pool == SourcePool(start.target_index, start.extra_index, remove_gt, n)
            drawn == [start EXCEPT !.n_srcs = n, !.remove_gt = remove_gt,
                                   !.pool = pool]
            picks == SelectSources(pool, n)
        IN IF picks = {}
           THEN output' = [drawn EXCEPT !.status = "ValueError",
                                        !.raised_in = "random.sample"]
           ELSE \E picked \in picks :
                  LET out == WithSources(drawn, picked, start.extra_index)
                  IN \E proj \in ProjectionsOf(out) :
                        output' = MaybePrior(out, proj)
    /\ UNCHANGED dataset

\* ---------------------------------------------------- get_viewer_batch
Fresh == [kind |-> "fresh", key |-> 0]

\* self.get_bounds(latent_index): the stored box of a latent index (a view
\* of the stored tensor), or a batch of boxes for a list of indices.
GetBounds(cut, latent_index) ==
    IF cut
    THEN [ref |-> Fresh,
          val |-> [i \in 1 .. Len(latent_index) |-> latent_bounds[latent_index[i]]]]
    ELSE [ref |-> [kind |-> "stored", key |-> latent_index],
          val |-> latent_bounds[latent_index]]

\* Faulty variant, for sensitivity checks: no clone, the query writes into the stored box.
CloneMissing(b) == b
\* .clone() (line 308): the box is the query's own from here on.
Clone(b) == [b EXCEPT !.ref = Fresh]

\* Lines 309-310, in place: bounds[0] = maximum(bounds[0], lower) and
\* bounds[1] = minimum(bounds[1], upper).  On one box the two rows are its
\* corners; on a batch they are its first two boxes.
CropBounds(cut, val, given) ==
    IF cut
    THEN [i \in 1 .. Len(val) |->
            IF i = 1 THEN <<Max(val[1][1], given[1]), Max(val[1][2], given[1])>>
            ELSE IF i = 2 THEN <<Min(val[2][1], given[2]), Min(val[2][2], given[2])>>
            ELSE val[i]]
    ELSE <<Max(val[1], given[1]), Min(val[2], given[2])>>

\* Lines 307-311: the query's bound box, and the box an in-place write
\* reaches in the dataset when the query's box is not its own.
LoadBounds(out, given) ==
    LET latent_index == IF closest_using_t THEN out.src_inds ELSE out.extra_index
        own == Clone(GetBounds(closest_using_t, latent_index))
    IN IF closest_using_t /\ Len(own.val) < 2
       THEN [out EXCEPT !.status = "IndexError", !.raised_in = "bounds",
                        !.bounds = own]
       ELSE [out EXCEPT !.bounds =
                [own EXCEPT !.val = CropBounds(closest_using_t, own.val, given)]]

StoredAfter(out) ==
    IF out.status = "ok" /\ out.bounds.ref.kind = "stored"
    THEN [latent_bounds EXCEPT ![out.bounds.ref.key] = out.bounds.val]
    ELSE latent_bounds

\* Lines 272-279: the candidates closest to the query centre at the
\* secondary index, best first, cut to the last entry of n_srcs_list.
ViewerSources(center, extra_index) ==
    LET sims == Evaluated([k \in 1 .. Cardinality(DOMAIN src_exts) |->
                    InverseClippedDistance(
                        Abs(src_exts[k - 1][extra_index].center - center))])
        n_srcs == n_srcs_list[Len(n_srcs_list)]
    IN PySlice(SortDescending(sims, tie_order), 0, n_srcs)

\* get_viewer_batch (lines 238-320) for a camera at `center` and a time
\* that t_to_frame and frame_to_latent map to latent_index.
get_viewer_batch ==
    /\ output = NoOutput
    /\ \E center \in 0 .. MaxCoord, latent_index \in Frames, given \in ViewerBounds :
        LET start == [NewOutput("get_viewer_batch", 0, latent_index)
                         EXCEPT !.center = center,
                                !.n_srcs = n_srcs_list[Len(n_srcs_list)]]
            picked == ViewerSources(center, start.extra_index)
            out == WithSources(start, picked, start.extra_index)
        IN \E proj \in ProjectionsOf(out) :
              LET done == IF out.status = "ok"
                          THEN LoadBounds(MaybePrior(out, proj), given)
                          ELSE out
              IN /\ output' = done
                 /\ latent_bounds' = StoredAfter(done)
    /\ UNCHANGED cached

\* The query's output goes to its caller.
Return == /\ output # NoOutput
          /\ output' = NoOutput
          /\ UNCHANGED dataset

Next == get_metadata \/ get_viewer_batch \/ Return
Spec == Init /\ [][Next]_vars

\* ------------------------------------- get_objects_prior on its own
\* Image sizes and boxes around the multiples of Align.
Grid == {k * Align + d : k \in 0 .. MaxBlocks, d \in {0, 1, 16, 31}}
ImageDims == {Align + 8, 2 * Align, (MaxBlocks + 1) * Align + 4}

\* The inputs of get_objects_prior: the projections the queries use, and
\* every box of the grid that lies inside its image.
InitPrior ==
    /\ Constructed(LineLayout, "ascending", FALSE, <<0, None, 1>>, <<1, 2>>, 1, 1, TRUE)
    /\ Loader("TRAIN", FALSE, Kinds)
    /\ \/ \E proj \in Projections :
             output = [op |-> "projection", projection |-> proj]
       \/ \E W \in ImageDims, x \in Grid, w \in Grid :
             /\ x + w <= W
             /\ \E H \in ImageDims, y \in Grid, h \in Grid :
                   /\ y + h <= H
                   /\ output = [op |-> "projection",
                                projection |-> [H |-> H, W |-> W,
                                                box |-> <<x, y, w, h>>]]

objects_prior ==
    /\ output.op = "projection"
    /\ output' = get_objects_prior(NewOutput("get_objects_prior", 0, 0),
                                    output.projection)
    /\ UNCHANGED dataset

NextPrior == objects_prior
SpecPrior == InitPrior /\ [][NextPrior]_vars

\* ------------------------------------------ the queries' image loading
\* Every split, decoding switch and set of payload kinds, under one layout
\* and one sampling policy.
InitSources ==
    \E cut \in BOOLEAN, sample \in SampleChoices, sp \in Splits,
       decoded \in BOOLEAN, ks \in SUBSET Kinds :
        /\ Constructed(LineLayout, "ascending", cut, sample, <<1, 2>>, 0, 1, FALSE)
        /\ Loader(sp, decoded, ks)
        /\ output = NoOutput

SpecSources == InitSources /\ [][Next]_vars

\* =============================================================== claims
NumCandidates == Len(src_view_inds)
IsMetadata == output.op = "get_metadata"
IsViewer == output.op = "get_viewer_batch"
\* The query got past line 193: it holds a selection.
HasSelection == output.raised_in # "random.sample"
\* The target's precomputed ranking at the query's secondary index.
QueryRanking == src_inds[output.target_index][output.extra_index]

\* C1: every training-time selection of get_metadata yields exactly n_srcs
\* candidate indices, pairwise distinct, each within [0, num_candidates).
C1_SelectionExact ==
    IsMetadata =>
        /\ HasSelection
        /\ Len(output.picked) = output.n_srcs
        /\ IsInjective(output.picked)
        /\ Range(output.picked) \subseteq 0 .. (NumCandidates - 1)

\* C2: with extra_src_pool = 0 and append_gt_prob = 0, whatever the random
\* source returns, the selection is the ranking's entries at positions
\* 1 .. n_srcs, in rank order.  (Stated on the positions the ranking has, so
\* that a ranking shorter than 1 + n_srcs does not decide it.)
C2_DeterministicSkipTop ==
    (IsMetadata /\ extra_src_pool = 0 /\ append_gt_prob = 0) =>
        output.picked = PySlice(QueryRanking, 1, 1 + output.n_srcs)

\* C3: a configuration whose n_srcs + extra_src_pool (plus the skipped
\* entry) exceeds the number of candidates does not survive construction: no
\* query sees a ranking slice shorter than the number of indices to draw.
C3_PoolNeverShort ==
    IsMetadata => Len(output.pool) >= output.n_srcs

\* The centre of candidate position c and of target t at secondary index s,
\* read from the camera store.
CandidateCenter(c, s) ==
    LET cam == Camera(closest_using_t, At(src_view_inds, c), s)
    IN c2ws[cam[1]][cam[2]]
TargetCenter(t, s) ==
    LET cam == Camera(closest_using_t, t, s)
    IN c2ws[cam[1]][cam[2]]
IsPermutation(seq, n) ==
    Len(seq) = n /\ Range(seq) = 0 .. (n - 1)

\* C4: after load_source_indices, for every target t and secondary index s,
\* src_inds[t, :, s] is a permutation of the candidate positions and the
\* similarities, each the inverse distance between the candidate's and the
\* target's centres, are non-increasing along it.
C4_RankingSorted ==
    \A t \in TargetAxis(closest_using_t), s \in SecondaryAxis(closest_using_t) :
        /\ IsPermutation(src_inds[t][s], NumCandidates)
        /\ Len(src_sims[t][s]) = NumCandidates
        /\ \A i \in 1 .. NumCandidates :
              src_sims[t][s][i] = InverseDistance(
                  Abs(CandidateCenter(src_inds[t][s][i], s) - TargetCenter(t, s)))
        /\ \A i \in 1 .. (NumCandidates - 1) :
              src_sims[t][s][i] >= src_sims[t][s][i + 1]

\* A ranking of at least three candidates at three different distances.
C4_Witness ==
    \E t \in TargetAxis(closest_using_t), s \in SecondaryAxis(closest_using_t) :
        /\ NumCandidates >= 3
        /\ src_sims[t][s][1] > src_sims[t][s][2]
        /\ src_sims[t][s][2] > src_sims[t][s][3]

\* C5: for every n_srcs_list, in any order of its elements,
\* get_viewer_batch returns the max(n_srcs_list) candidates (all of them when
\* there are fewer) closest to the query centre at the secondary index,
\* closest first.
C5_ViewerTakesMax ==
    IsViewer =>
        LET dist(c) == Abs(CandidateCenter(c, output.extra_index) - output.center)
        IN /\ Len(output.picked) = Min(MaxOf(n_srcs_list), NumCandidates)
           /\ IsInjective(output.picked)
           /\ \A i, j \in 1 .. Len(output.picked) :
                 i < j => dist(output.picked[i]) <= dist(output.picked[j])
           /\ \A c \in (0 .. (NumCandidates - 1)) \ Range(output.picked) :
                 \A i \in 1 .. Len(output.picked) : dist(output.picked[i]) <= dist(c)

\* The projected box lies inside the image.
BoxInside(proj) ==
    /\ Len(proj.box) = 4
    /\ proj.box[1] >= 0 /\ proj.box[2] >= 0
    /\ proj.box[3] >= 0 /\ proj.box[4] >= 0
    /\ proj.box[1] + proj.box[3] <= proj.W
    /\ proj.box[2] + proj.box[4] <= proj.H
\* get_objects_prior has run, in a query or on its own.
PriorRan == output.op \in {"get_objects_prior", "get_metadata", "get_viewer_batch"}
            /\ output.objects_xywh # <<>>
Scenario == [H |-> 480, W |-> 640, box |-> <<100, 100, 50, 40>>]

\* C6: for every image size and every projected box inside the image, the
\* box of get_objects_prior has width and height that are multiples of 32
\* and at most W and H, and x >= 0, y >= 0, x + w <= W, y + h <= H;
\* (100,100,50,40) in 640x480 gives (93,88,64,64).
C6_BoxAlignedInside ==
    (PriorRan /\ BoxInside(output.projection)) =>
        LET x == output.objects_xywh[1]
            y == output.objects_xywh[2]
            w == output.objects_xywh[3]
            h == output.objects_xywh[4]
            H == output.projection.H
            W == output.projection.W
        IN /\ w % Align = 0 /\ h % Align = 0
           /\ w <= W /\ h <= H
           /\ x >= 0 /\ y >= 0
           /\ x + w <= W /\ y + h <= H
           /\ output.projection = Scenario => output.objects_xywh = <<93, 88, 64, 64>>

\* The scenario's box, aligned.
C6_Witness ==
    /\ output.op = "get_objects_prior"
    /\ output.projection = Scenario
    /\ output.objects_xywh = <<93, 88, 64, 64>>

C8_Rounded ==
    AlignedBox(output.projection.H, output.projection.W, output.projection.box)

\* C8: a projected box of zero area, or one that rounding leaves with zero
\* width or height, ends get_objects_prior in an error and objects_xywh is
\* not written.
C8_DegenerateRejected ==
    (output.op = "get_objects_prior"
        /\ \/ output.projection.box[3] = 0
           \/ output.projection.box[4] = 0
           \/ C8_Rounded[3] = 0
           \/ C8_Rounded[4] = 0)
    => (output.status # "ok" /\ output.objects_xywh = <<>>)

\* The ranking positions remove_gt .. remove_gt + n_srcs + extra_src_pool - 1
\* the ranking has.
PoolPositions ==
    {k \in output.remove_gt ..
           (output.remove_gt + output.n_srcs + extra_src_pool - 1) :
        k < Len(QueryRanking)}

\* C9: in get_metadata remove_gt is 0 or 1 and the selected indices are
\* entries of the target's precomputed ranking at positions remove_gt ..
\* remove_gt + n_srcs + extra_src_pool - 1; with extra_src_pool > 0 they are
\* n_srcs distinct entries of that pool, with extra_src_pool = 0 they are the
\* pool itself in rank order.
C9_DrawnFromPool ==
    (IsMetadata /\ HasSelection) =>
        /\ output.remove_gt \in {0, 1}
        /\ Range(output.picked) \subseteq {At(QueryRanking, k) : k \in PoolPositions}
        /\ extra_src_pool > 0 =>
              Len(output.picked) = output.n_srcs /\ IsInjective(output.picked)
        /\ extra_src_pool = 0 =>
              /\ Len(output.picked) = Cardinality(PoolPositions)
              /\ \A i \in 1 .. Len(output.picked) :
                    output.picked[i] = At(QueryRanking, output.remove_gt + i - 1)

\* With the top entry left in and a pool of three, a query that drew the
\* pool's last entry before its first.
C9_Witness ==
    /\ IsMetadata /\ output.status = "ok"
    /\ output.remove_gt = 0 /\ output.n_srcs = 2 /\ extra_src_pool = 1
    /\ Len(QueryRanking) >= 3
    /\ output.picked = <<At(QueryRanking, 2), At(QueryRanking, 0)>>

\* The candidate positions of target t, and whether more than one candidate
\* position sits on the target's centre at secondary index s.
PositionsOf(t) == {c \in 0 .. (NumCandidates - 1) : At(src_view_inds, c) = t}
SharesCenter(t, s) ==
    Cardinality({c \in 0 .. (NumCandidates - 1) :
                    CandidateCenter(c, s) = TargetCenter(t, s)}) > 1

HasSources == (IsMetadata \/ IsViewer) /\ output.status = "ok"

\* C11: in both axis modes, for every src_view_sample (a selection of one
\* element included) and in both queries, the parameters at every position k
\* of the result are those of the physical (view, frame) pair, built from
\* src_inds[k] and the secondary index, that the image loader is given for k.
C11_ParamsMatchImages ==
    HasSources =>
        /\ Len(output.src_exts) = Len(output.src_inds)
        /\ Len(output.src_ixts) = Len(output.src_inds)
        /\ Len(output.loaded) = Len(output.src_inds)
        /\ \A k \in 1 .. Len(output.src_inds) :
              /\ output.loaded[k] = Camera(closest_using_t, output.src_inds[k],
                                           output.extra_index)
              /\ output.src_exts[k].cam = output.loaded[k]
              /\ output.src_ixts[k].cam = output.loaded[k]
              /\ output.src_exts[k].center
                    = c2ws[output.loaded[k][1]][output.loaded[k][2]]

\* A query along the frame axis over a selection of the single frame 1: the
\* one candidate sits at position 0 and stands for physical index 1.
C11_Witness ==
    /\ IsMetadata /\ output.status = "ok"
    /\ closest_using_t /\ src_view_sample = <<1>>
    /\ output.view_index = 2
    /\ output.picked = <<0>> /\ output.src_inds = <<1>>
    /\ output.loaded = <<<<2, 1>>>>

\* The raw-bytes branch of get_sources.
RawBytes == split # "TRAIN" /\ ~supply_decoded
\* The payload kinds found under the keys of output.meta.
KindsStored == {output.stored[key].kind : key \in DOMAIN output.stored}

\* C12: in the raw-bytes branch of get_sources every payload kind the loader
\* returns is stored under a key of output.meta, none overwriting another,
\* and output.meta.src_msks, when written, holds the mask bytes.
C12_OwnMetaKey ==
    (HasSources /\ RawBytes) =>
        /\ \A kind \in kinds \cup {"rgb"} : kind \in KindsStored
        /\ "meta.src_msks" \in DOMAIN output.stored =>
              output.stored["meta.src_msks"].kind = "msk"
==========================================================================
